---- MODULE Spec2Model ----
(***************************************************************************)
(* A model of the idea-scoring endpoint src/pages/api/score.ts: the        *)
(* per-identity rate limiter (an LRU cache with a time-to-live), the       *)
(* keyword heuristics, the parsing of the upstream reply, the composite    *)
(* score and the request handler that sequences them.                      *)
(***************************************************************************)
EXTENDS Integers, Sequences, FiniteSets, TLC

\* ------------------------------------------------------------------ bounds


\* The time-to-live of an entry (1000 * 60 * 60 ms in the source), in ticks
\* of the model's clock.
TTL == 1

\* The clock stops after enough ticks for an entry to lapse twice over.
MaxTime == TTL + 2

REQUESTS_PER_HOUR == 5

\* The longest recorded run of getRateLimit results of one identity: the
\* allowed calls and this many rejected ones.
MaxRejected == 2
MaxStreak == REQUESTS_PER_HOUR + MaxRejected

\* ------------------------------------------------------- the rate limiter

\* The caller identities: two network addresses and the handler's fallback.
Identities == {"a", "b", "unknown"}

\* The cache capacity (max: 500 in the source), scaled down to one less
\* than the identities so that a full cache is reached.
MaxTracked == Cardinality(Identities) - 1

VARIABLES
  rateLimiter,  \* the LRU cache: entries [key, value, start], least recently used first
  now,          \* the clock the cache reads
  streak,       \* history: per identity, the getRateLimit results since its entry was last absent
  used          \* history: the identities that called getRateLimit, the latest caller last

limiterVars == <<rateLimiter, now, streak, used>>

Undefined == 0 - 1

IndexOf(cache, k) ==
  IF \E i \in 1..Len(cache) : cache[i].key = k
  THEN CHOOSE i \in 1..Len(cache) : cache[i].key = k
  ELSE 0

Without(cache, i) ==
  [j \in 1..(Len(cache) - 1) |-> IF j < i THEN cache[j] ELSE cache[j + 1]]

\* lru-cache's staleness test: the entry's age exceeds the ttl.
isStaleNever(entry, t) == FALSE
isStale(entry, t) == t - entry.start > TTL

\* LRUCache.get: undefined for an absent key; a stale entry is deleted and
\* reads as undefined; a live entry becomes the most recently used and
\* keeps its age.
LruGetPurgesStale(cache, k, t) ==
  LET live == SelectSeq(cache, LAMBDA e : ~isStale(e, t))
      i == IndexOf(live, k) IN
  IF i = 0 THEN [cache |-> live, value |-> Undefined]
  ELSE [cache |-> Append(Without(live, i), live[i]), value |-> live[i].value]
LruGetAllowStale(cache, k, t) ==
  LET i == IndexOf(cache, k) IN
  IF i = 0 THEN [cache |-> cache, value |-> Undefined]
  ELSE IF isStale(cache[i], t)
       THEN [cache |-> Without(cache, i), value |-> cache[i].value]
       ELSE [cache |-> Append(Without(cache, i), cache[i]), value |-> cache[i].value]
LruGetNoTouch(cache, k, t) ==
  LET i == IndexOf(cache, k) IN
  IF i = 0 THEN [cache |-> cache, value |-> Undefined]
  ELSE IF isStale(cache[i], t)
       THEN [cache |-> Without(cache, i), value |-> Undefined]
       ELSE [cache |-> cache, value |-> cache[i].value]
LruGetRefreshAge(cache, k, t) ==
  LET i == IndexOf(cache, k) IN
  IF i = 0 THEN [cache |-> cache, value |-> Undefined]
  ELSE IF isStale(cache[i], t)
       THEN [cache |-> Without(cache, i), value |-> Undefined]
       ELSE [cache |-> Append(Without(cache, i), [cache[i] EXCEPT !.start = t]),
             value |-> cache[i].value]
LruGet(cache, k, t) ==
  LET i == IndexOf(cache, k) IN
  IF i = 0 THEN [cache |-> cache, value |-> Undefined]
  ELSE IF isStale(cache[i], t)
       THEN [cache |-> Without(cache, i), value |-> Undefined]
       ELSE [cache |-> Append(Without(cache, i), cache[i]), value |-> cache[i].value]

\* LRUCache.set: stores the value as the most recently used entry and
\* restarts its age; a new key arriving at a full cache evicts the least
\* recently used entry first.
LruSet(cache, k, v, t) ==
  LET i == IndexOf(cache, k)
      e == [key |-> k, value |-> v, start |-> t] IN
  IF i # 0 THEN Append(Without(cache, i), e)
  ELSE IF Len(cache) >= MaxTracked THEN Append(Tail(cache), e)
  ELSE Append(cache, e)

\* getRateLimit(ip) at time t on the cache: the cache it leaves and the
\* result it returns.
getRateLimitCountsRejected(cache, ip, t) ==
  LET g == LruGet(cache, ip, t)
      current == IF g.value = Undefined THEN 0 ELSE g.value IN
  IF current >= REQUESTS_PER_HOUR
  THEN [cache |-> LruSet(g.cache, ip, current + 1, t), allowed |-> FALSE, remaining |-> 0]
  ELSE [cache |-> LruSet(g.cache, ip, current + 1, t), allowed |-> TRUE,
        remaining |-> REQUESTS_PER_HOUR - (current + 1)]
getRateLimitOffByOne(cache, ip, t) ==
  LET g == LruGet(cache, ip, t)
      current == IF g.value = Undefined THEN 0 ELSE g.value IN
  IF current > REQUESTS_PER_HOUR
  THEN [cache |-> g.cache, allowed |-> FALSE, remaining |-> 0]
  ELSE [cache |-> LruSet(g.cache, ip, current + 1, t), allowed |-> TRUE,
        remaining |-> REQUESTS_PER_HOUR - (current + 1)]
getRateLimit(cache, ip, t) ==
  LET g == LruGet(cache, ip, t)
      current == IF g.value = Undefined THEN 0 ELSE g.value IN
  IF current >= REQUESTS_PER_HOUR
  THEN [cache |-> g.cache, allowed |-> FALSE, remaining |-> 0]
  ELSE [cache |-> LruSet(g.cache, ip, current + 1, t), allowed |-> TRUE,
        remaining |-> REQUESTS_PER_HOUR - (current + 1)]

Tracked(cache) == {cache[i].key : i \in 1..Len(cache)}

\* How a getRateLimit call for ip at time t finds the identity: its entry
\* absent (never stored, or evicted since the identity last called), live,
\* or lapsed (older than the time-to-live), and a lapsed one after a
\* rejected call or not.
Origin(cache, ip, t) ==
  LET i == IndexOf(cache, ip) IN
  IF i = 0 THEN (IF \E j \in 1..Len(used) : used[j] = ip THEN "evicted" ELSE "absent")
  ELSE IF t - cache[i].start > TTL
       THEN (IF streak[ip] # <<>> /\ ~streak[ip][Len(streak[ip])].allowed
             THEN "lapsed throttled" ELSE "lapsed")
       ELSE "live"

\* The history kept beside a getRateLimit call for ip that returned r and
\* left the cache after: the run of ip goes on while its entry is live and
\* restarts otherwise, and the run of an identity whose entry was evicted
\* is forgotten.
StreakAfter(before, after, ip, r, t) ==
  LET origin == Origin(before, ip, t)
      res    == [allowed |-> r.allowed, remaining |-> r.remaining, origin |-> origin] IN
  [k \in Identities |->
     IF k = ip THEN (IF origin = "live" THEN Append(streak[k], res) ELSE <<res>>)
     ELSE IF k \in Tracked(after) THEN streak[k] ELSE <<>>]

\* The recorded runs are kept to MaxStreak results.
\* The order of the callers after a call of ip.
UsedAfter(ip) == Append(SelectSeq(used, LAMBDA k : k # ip), ip)

CanCall(ip, t) == Len(streak[ip]) < MaxStreak \/ Origin(rateLimiter, ip, t) # "live"

LimiterInit ==
  /\ rateLimiter = <<>>
  /\ now = 0
  /\ streak = [k \in Identities |-> <<>>]
  /\ used = <<>>

\* ------------------------------------------------------------ JS numbers

\* A JavaScript number: NaN, or the rational n/d (d > 0).
NaN == [nan |-> TRUE, n |-> 0, d |-> 1]
Num(n) == [nan |-> FALSE, n |-> n, d |-> 1]
Frac(n, d) == [nan |-> FALSE, n |-> n, d |-> d]

IsInt(x) == ~x.nan /\ x.d = 1

Plus(x, y) ==
  IF x.nan \/ y.nan THEN NaN
  ELSE IF x.d = y.d THEN Frac(x.n + y.n, x.d)
  ELSE Frac(x.n * y.d + y.n * x.d, x.d * y.d)

Minus(x, y) == Plus(x, IF y.nan THEN NaN ELSE Frac(0 - y.n, y.d))

DivBy(x, k) == IF x.nan THEN NaN ELSE Frac(x.n, x.d * k)

\* Math.round: to the nearest integer, halves toward +infinity.
MathRound(x) == IF x.nan THEN NaN ELSE Num((2 * x.n + x.d) \div (2 * x.d))

\* Math.max and Math.min of two numbers: NaN if either is NaN.
MathMax(x, y) ==
  IF x.nan \/ y.nan THEN NaN
  ELSE IF x.n * y.d >= y.n * x.d THEN x ELSE y

MathMin(x, y) ==
  IF x.nan \/ y.nan THEN NaN
  ELSE IF x.n * y.d <= y.n * x.d THEN x ELSE y

\* clamp(val, min, max)
clamp(val, min, max) == MathMin(MathMax(MathRound(val), Num(min)), Num(max))

\* ------------------------------------------------------- keyword scoring

AI_KEYWORDS == <<
  <<"a", "i">>,
  <<"a", "r", "t", "i", "f", "i", "c", "i", "a", "l", " ", "i", "n", "t", "e", "l", "l", "i", "g", "e", "n", "c", "e">>,
  <<"m", "a", "c", "h", "i", "n", "e", " ", "l", "e", "a", "r", "n", "i", "n", "g">>,
  <<"m", "l">>,
  <<"l", "l", "m">>,
  <<"g", "p", "t">>,
  <<"n", "e", "u", "r", "a", "l">>,
  <<"d", "e", "e", "p", " ", "l", "e", "a", "r", "n", "i", "n", "g">>,
  <<"n", "l", "p">>,
  <<"c", "o", "m", "p", "u", "t", "e", "r", " ", "v", "i", "s", "i", "o", "n">>,
  <<"g", "e", "n", "e", "r", "a", "t", "i", "v", "e">>,
  <<"a", "g", "e", "n", "t">>,
  <<"a", "u", "t", "o", "n", "o", "m", "o", "u", "s">>,
  <<"c", "o", "p", "i", "l", "o", "t">>,
  <<"c", "h", "a", "t", "b", "o", "t">>,
  <<"e", "m", "b", "e", "d", "d", "i", "n", "g">>,
  <<"v", "e", "c", "t", "o", "r">>,
  <<"d", "i", "f", "f", "u", "s", "i", "o", "n">>,
  <<"t", "r", "a", "n", "s", "f", "o", "r", "m", "e", "r">>,
  <<"f", "i", "n", "e", "-", "t", "u", "n">>,
  <<"r", "a", "g">>,
  <<"m", "u", "l", "t", "i", "m", "o", "d", "a", "l">>
>>

BUZZWORDS == <<
  <<"b", "l", "o", "c", "k", "c", "h", "a", "i", "n">>,
  <<"w", "e", "b", "3">>,
  <<"n", "f", "t">>,
  <<"c", "r", "y", "p", "t", "o">>,
  <<"m", "e", "t", "a", "v", "e", "r", "s", "e">>,
  <<"d", "e", "f", "i">>,
  <<"d", "a", "o">>,
  <<"d", "i", "s", "r", "u", "p", "t">>,
  <<"d", "i", "s", "r", "u", "p", "t", "i", "o", "n">>,
  <<"1", "0", "x">>,
  <<"1", "0", "0", "x">>,
  <<"d", "e", "m", "o", "c", "r", "a", "t", "i", "z", "e">>,
  <<"r", "e", "v", "o", "l", "u", "t", "i", "o", "n", "i", "z", "e">>,
  <<"p", "a", "r", "a", "d", "i", "g", "m">>,
  <<"s", "y", "n", "e", "r", "g", "y">>,
  <<"e", "c", "o", "s", "y", "s", "t", "e", "m">>,
  <<"s", "c", "a", "l", "a", "b", "l", "e">>,
  <<"s", "c", "a", "l", "e">>,
  <<"p", "l", "a", "t", "f", "o", "r", "m">>,
  <<"n", "e", "t", "w", "o", "r", "k", " ", "e", "f", "f", "e", "c", "t">>,
  <<"f", "r", "i", "c", "t", "i", "o", "n", "l", "e", "s", "s">>,
  <<"s", "e", "a", "m", "l", "e", "s", "s">>,
  <<"u", "b", "e", "r", " ", "f", "o", "r">>,
  <<"a", "i", "r", "b", "n", "b", " ", "f", "o", "r">>,
  <<"t", "i", "n", "d", "e", "r", " ", "f", "o", "r">>,
  <<"f", "u", "t", "u", "r", "e", " ", "o", "f">>,
  <<"n", "e", "x", "t", " ", "g", "e", "n", "e", "r", "a", "t", "i", "o", "n">>,
  <<"n", "e", "x", "t", "-", "g", "e", "n">>,
  <<"w", "o", "r", "l", "d", "-", "c", "l", "a", "s", "s">>,
  <<"b", "e", "s", "t", "-", "i", "n", "-", "c", "l", "a", "s", "s">>,
  <<"e", "n", "d", "-", "t", "o", "-", "e", "n", "d">>,
  <<"f", "u", "l", "l", "-", "s", "t", "a", "c", "k">>,
  <<"h", "o", "l", "i", "s", "t", "i", "c">>,
  <<"l", "e", "v", "e", "r", "a", "g", "e">>,
  <<"i", "d", "e", "a", "t", "e">>,
  <<"p", "i", "v", "o", "t">>,
  <<"m", "v", "p">>,
  <<"b", "2", "b">>,
  <<"b", "2", "c">>,
  <<"s", "a", "a", "s">>,
  <<"p", "a", "a", "s">>
>>

CRINGE_PHRASES == <<
  <<"c", "h", "a", "n", "g", "e", " ", "t", "h", "e", " ", "w", "o", "r", "l", "d">>,
  <<"m", "a", "k", "e", " ", "t", "h", "e", " ", "w", "o", "r", "l", "d", " ", "a", " ", "b", "e", "t", "t", "e", "r", " ", "p", "l", "a", "c", "e">>,
  <<"p", "a", "s", "s", "i", "o", "n", "a", "t", "e">>,
  <<"o", "n", " ", "a", " ", "m", "i", "s", "s", "i", "o", "n">>,
  <<"w", "e", " ", "b", "e", "l", "i", "e", "v", "e">>,
  <<"i", " ", "b", "e", "l", "i", "e", "v", "e">>,
  <<"j", "o", "u", "r", "n", "e", "y">>,
  <<"s", "p", "a", "c", "e">>,
  <<"i", "n", " ", "t", "h", "e", " ", "x", " ", "s", "p", "a", "c", "e">>,
  <<"t", "h", "e", " ", "x", " ", "s", "p", "a", "c", "e">>,
  <<"m", "o", "v", "e", " ", "f", "a", "s", "t">>,
  <<"h", "u", "s", "t", "l", "e">>,
  <<"g", "r", "i", "n", "d">>,
  <<"t", "h", "o", "u", "g", "h", "t", " ", "l", "e", "a", "d", "e", "r">>,
  <<"s", "e", "r", "i", "a", "l", " ", "e", "n", "t", "r", "e", "p", "r", "e", "n", "e", "u", "r">>,
  <<"v", "i", "s", "i", "o", "n", "a", "r", "y">>,
  <<"d", "i", "s", "r", "u", "p", "t", "i", "n", "g", " ", "t", "h", "e">>,
  <<"p", "a", "i", "n", " ", "p", "o", "i", "n", "t">>,
  <<"g", "a", "m", "e", " ", "c", "h", "a", "n", "g", "e", "r">>,
  <<"g", "a", "m", "e", "-", "c", "h", "a", "n", "g", "e", "r">>,
  <<"l", "o", "w", "-", "h", "a", "n", "g", "i", "n", "g", " ", "f", "r", "u", "i", "t">>,
  <<"m", "o", "v", "e", " ", "t", "h", "e", " ", "n", "e", "e", "d", "l", "e">>,
  <<"c", "i", "r", "c", "l", "e", " ", "b", "a", "c", "k">>,
  <<"d", "e", "e", "p", " ", "d", "i", "v", "e">>,
  <<"a", "t", " ", "t", "h", "e", " ", "e", "n", "d", " ", "o", "f", " ", "t", "h", "e", " ", "d", "a", "y">>,
  <<"s", "k", "i", "n", " ", "i", "n", " ", "t", "h", "e", " ", "g", "a", "m", "e">>,
  <<"f", "a", "i", "l", " ", "f", "a", "s", "t">>,
  <<"g", "r", "o", "w", "t", "h", " ", "h", "a", "c", "k", "i", "n", "g">>,
  <<"n", "o", "r", "t", "h", " ", "s", "t", "a", "r">>,
  <<"b", "l", "e", "e", "d", "i", "n", "g", " ", "e", "d", "g", "e">>,
  <<"c", "u", "t", "t", "i", "n", "g", " ", "e", "d", "g", "e">>,
  <<"f", "i", "r", "s", "t", " ", "p", "r", "i", "n", "c", "i", "p", "l", "e", "s">>
>>


\* String.prototype.toLowerCase, on the letters the model's texts use.
ToLowerChar(c) ==
  CASE c = "A" -> "a" [] c = "D" -> "d" [] c = "I" -> "i" [] c = "S" -> "s"
    [] OTHER -> c

toLowerCase(text) == [i \in 1..Len(text) |-> ToLowerChar(text[i])]

MatchesAt(text, kw, i) ==
  /\ i + Len(kw) - 1 <= Len(text)
  /\ \A j \in 1..Len(kw) : text[i + j - 1] = kw[j]

\* The number of matches of a global regex for the literal kw from position
\* i on: the scan resumes after each match, so matches do not overlap.
RECURSIVE CountFrom(_, _, _)
CountFrom(text, kw, i) ==
  IF i > Len(text) THEN 0
  ELSE IF MatchesAt(text, kw, i) THEN 1 + CountFrom(text, kw, i + Len(kw))
  ELSE CountFrom(text, kw, i + 1)

RECURSIVE SumMatches(_, _, _)
SumMatches(lower, keywords, k) ==
  IF k > Len(keywords) THEN 0
  ELSE CountFrom(lower, keywords[k], 1) + SumMatches(lower, keywords, k + 1)

\* countMatches(text, keywords)
countMatches(text, keywords) == SumMatches(toLowerCase(text), keywords, 1)

IsSpace(c) == c = " "

\* String.prototype.trim
RECURSIVE trim(_)
trim(text) ==
  IF text = <<>> THEN text
  ELSE IF IsSpace(Head(text)) THEN trim(Tail(text))
  ELSE IF IsSpace(text[Len(text)]) THEN trim(SubSeq(text, 1, Len(text) - 1))
  ELSE text

\* idea.trim().split(/\s+/).length: one more than the number of runs of
\* whitespace in the trimmed text (an empty text splits into one piece).
wordCount(idea) ==
  LET t == trim(idea) IN
  1 + Cardinality({i \in 2..Len(t) : IsSpace(t[i]) /\ ~IsSpace(t[i - 1])})

\* Math.random() is one of RandomSteps equally spaced values rnd/RandomSteps
\* in [0, 1); Math.floor(Math.random() * m) for an integer m.
RandomSteps == 14 * 150

FloorRandom(rnd, m) == (rnd * m) \div RandomSteps

\* 10^6 * Math.log(x / 10), to the nearest integer, for the arguments
\* hits * ramp that the model reaches (x is ten times the argument).
MathLogMicro(x) ==
  ((20 :> 693147) @@ (25 :> 916291) @@ (30 :> 1098612) @@ (40 :> 1386294)
   @@ (50 :> 1609438) @@ (60 :> 1791759) @@ (75 :> 2014903) @@ (80 :> 2079442)
   @@ (90 :> 2197225) @@ (100 :> 2302585) @@ (120 :> 2484907) @@ (125 :> 2525729)
   @@ (140 :> 2639057) @@ (150 :> 2708050) @@ (160 :> 2772589) @@ (175 :> 2862201)
   @@ (180 :> 2890372) @@ (200 :> 2995732) @@ (210 :> 3044522) @@ (220 :> 3091042)
   @@ (225 :> 3113515) @@ (240 :> 3178054) @@ (250 :> 3218876) @@ (270 :> 3295837)
   @@ (275 :> 3314186) @@ (300 :> 3401197) @@ (330 :> 3496508) @@ (360 :> 3583519))[x]

Million == 1000 * 1000

\* scoreFromHits(hits, ramp) with Math.random() = rnd/RandomSteps; ramp10 is
\* ten times the ramp. baseFromHits is the value the jitter is added to:
\* the literal 60 of the branch for no hits, the capped logarithmic ramp
\* otherwise.
baseFromHitsLowFloor(hits, ramp10) ==
  IF hits = 0 THEN Num(40)
  ELSE MathMin(Num(100),
               MathRound(Frac(65 * Million + 22 * MathLogMicro(hits * ramp10), Million)))
baseFromHitsUncapped(hits, ramp10) ==
  IF hits = 0 THEN Num(60)
  ELSE MathRound(Frac(65 * Million + 22 * MathLogMicro(hits * ramp10), Million))
baseFromHits(hits, ramp10) ==
  IF hits = 0 THEN Num(60)
  ELSE MathMin(Num(100),
               MathRound(Frac(65 * Million + 22 * MathLogMicro(hits * ramp10), Million)))

\* Math.floor(Math.random() * 14) - 7
jitterOf(rnd) == FloorRandom(rnd, 14) - 7

scoreFromHits(hits, ramp10, rnd) ==
  LET jitter == jitterOf(rnd) IN
  clamp(Plus(baseFromHits(hits, ramp10), Num(jitter)), 0, 100)

\* The scoreFromHits of src/pages/leaderboard.tsx: a draw below 20 for no
\* hits, a ramp from 40 with a jitter of its own otherwise.
scoreFromHitsEmbedded(hits, ramp10, rnd) ==
  IF hits = 0 THEN Num(FloorRandom(rnd, 20))
  ELSE LET base == MathMin(Num(100),
                     MathRound(Frac(40 * Million + 30 * MathLogMicro(hits * ramp10), Million)))
           jitter == FloorRandom(rnd, 10) - 5
       IN clamp(Plus(base, Num(jitter)), 0, 100)

\* The values the jitter takes over the values of Math.random().
JitterOutcomes == {jitterOf(rnd) : rnd \in 0..(RandomSteps - 1)}

\* ------------------------------------------------------------ idea texts

Empty == <<>>
Blank == <<" ", " ">>
DogWalking == <<"D", "o", "g", " ", "w", "a", "l", "k", "i", "n", "g", " ", "a", "p", "p">>
AiSaas == <<"A", "I", " ", "S", "a", "a", "S", " ", "j", "o", "u", "r", "n", "e", "y">>
AiChair == <<"a", "i", " ", "c", "h", "a", "i", "r", " ", "a", "i">>

Texts == {Empty, Blank, DogWalking, AiSaas, AiChair}

aiHits == [t \in Texts |-> countMatches(t, AI_KEYWORDS)]
buzzHits == [t \in Texts |-> countMatches(t, BUZZWORDS)]
cringeHits == [t \in Texts |-> countMatches(t, CRINGE_PHRASES)]
words == [t \in Texts |-> wordCount(t)]

\* ------------------------------------------------------------- JS values

\* A JavaScript value as far as the handler distinguishes it.
JsUndefined == [k |-> "undefined", num |-> NaN, str |-> ""]
JsNull == [k |-> "null", num |-> NaN, str |-> ""]
JsNumber(x) == [k |-> "number", num |-> x, str |-> ""]
JsString(s) == [k |-> "string", num |-> NaN, str |-> s]

\* The number a string converts to, for the strings the model uses.
StringToNumber(s) == IF s = "" THEN Num(0) ELSE IF s = "80" THEN Num(80) ELSE NaN

\* The conversion Math.round applies to its argument.
ToNumber(v) ==
  CASE v.k = "undefined" -> NaN
    [] v.k = "null" -> Num(0)
    [] v.k = "number" -> v.num
    [] v.k = "string" -> StringToNumber(v.str)

\* ----------------------------------------------------- the upstream reply

\* The objects a reply's text can denote, by the text that denotes them:
\* the four fields the handler reads, and a field named like one of the
\* handler's own metrics.
Reply(yc, del, rank, verdict) ==
  [isNull |-> FALSE, yc_bait_score |-> yc, delusion_index |-> del,
   founder_rank |-> rank, goblin_verdict |-> verdict, ai_hype_beast |-> JsUndefined]

JsonTexts ==
  ("{good}" :> Reply(JsNumber(Num(80)), JsNumber(Num(70)), JsString("Chad"), JsString("verdict")))
  @@ ("{wild}" :> Reply(JsNumber(Num(150)), JsNumber(Num(30)), JsString("Beta"), JsString("verdict")))
  @@ ("{frac}" :> Reply(JsNumber(Frac(0 - 5, 10)), JsNumber(Frac(725, 10)), JsString("Gamma"), JsString("verdict")))
  @@ ("{noyc}" :> Reply(JsUndefined, JsNumber(Num(90)), JsString("Founder Extraordinaire"), JsString("verdict")))
  @@ ("{words}" :> Reply(JsString("80"), JsString("high"), JsString("Chad"), JsString("verdict")))
  @@ ("{sigma}" :> Reply(JsNumber(Num(60)), JsNumber(Num(60)), JsString("Sigma"), JsString("verdict")))
  @@ ("{hype}" :> [Reply(JsNumber(Num(80)), JsNumber(Num(70)), JsString("Chad"), JsString("verdict"))
                     EXCEPT !.ai_hype_beast = JsNumber(Num(1))])
  @@ ("{norank}" :> Reply(JsNumber(Num(60)), JsNumber(Num(100)), JsUndefined, JsUndefined))
  @@ ("null" :> [Reply(JsUndefined, JsUndefined, JsUndefined, JsUndefined) EXCEPT !.isNull = TRUE])

IsFence(tok) == tok \in {"<fence json>", "<fence>"}
IsBlank(tok) == tok = "<newline>"

\* content.replace(...): every code-fence marker, with or without its json tag, is removed
StripFences(content) == SelectSeq(content, LAMBDA tok : ~IsFence(tok))

RECURSIVE TrimTokens(_)
TrimTokens(content) ==
  IF content = <<>> THEN content
  ELSE IF IsBlank(Head(content)) THEN TrimTokens(Tail(content))
  ELSE IF IsBlank(content[Len(content)]) THEN TrimTokens(SubSeq(content, 1, Len(content) - 1))
  ELSE content

\* JSON.parse(cleaned): the value of a text that is exactly one JSON text,
\* a SyntaxError otherwise.
JsonParseLenient(cleaned) ==
  LET found == SelectSeq(cleaned, LAMBDA tok : tok \in DOMAIN JsonTexts) IN
  IF found # <<>>
  THEN [throws |-> FALSE, value |-> JsonTexts[found[1]]]
  ELSE [throws |-> TRUE, value |-> JsonTexts["null"]]
JsonParse(cleaned) ==
  IF Len(cleaned) = 1 /\ cleaned[1] \in DOMAIN JsonTexts
  THEN [throws |-> FALSE, value |-> JsonTexts[cleaned[1]]]
  ELSE [throws |-> TRUE, value |-> JsonTexts["null"]]

\* What the upstream service can answer: a non-success status; a body that
\* is not JSON; a JSON body without choices; a null content; or a content,
\* a sequence of pieces of text.
Answer(ok, kind, content) == [ok |-> ok, kind |-> kind, content |-> content]

Upstreams ==
  { Answer(FALSE, "error", <<>>),
    Answer(TRUE, "notjson", <<>>),
    Answer(TRUE, "nochoices", <<>>),
    Answer(TRUE, "nullcontent", <<>>),
    Answer(TRUE, "content", <<"<fence json>", "<newline>", "{good}", "<newline>", "<fence>">>),
    Answer(TRUE, "content", <<"{wild}">>),
    Answer(TRUE, "content", <<"<newline>", "{frac}", "<newline>">>),
    Answer(TRUE, "content", <<"Sure!", "{good}">>),
    Answer(TRUE, "content", <<"{good}", "{good}">>),
    Answer(TRUE, "content", <<"{noyc}">>),
    Answer(TRUE, "content", <<"{words}">>),
    Answer(TRUE, "content", <<"<fence>", "{sigma}", "<fence>">>),
    Answer(TRUE, "content", <<"{norank}">>),
    Answer(TRUE, "content", <<"{hype}">>),
    Answer(TRUE, "content", <<"null">>) }

\* ------------------------------------------------------------ the handler

Geq(x, k) == ~x.nan /\ x.n >= k * x.d

\* Math.min(wordCount / 1.2, 30), for a word count of nwords
specificityBonusUncapped(nwords) == Frac(10 * nwords, 12)
specificityBonus(nwords) == MathMin(Frac(10 * nwords, 12), Num(30))

\* marketBase: the market viability before its jitter.
marketBase(nwords, ai_hype_beast, buzzword_density) ==
  LET hypePenalty == MathRound(DivBy(Plus(ai_hype_beast, buzzword_density), 14))
  IN Minus(Plus(Num(55), specificityBonus(nwords)), hypePenalty)

\* The branch of the if-else chain that sets pivot_to_ai_probability.
pivotBranchBuzzFirst(ai_hype_beast, buzzword_density, market_viability) ==
  IF Geq(buzzword_density, 50) THEN 2
  ELSE IF Geq(ai_hype_beast, 60) THEN 1
  ELSE IF Geq(market_viability, 55) THEN 3
  ELSE 4
pivotBranch(ai_hype_beast, buzzword_density, market_viability) ==
  IF Geq(ai_hype_beast, 60) THEN 1
  ELSE IF Geq(buzzword_density, 50) THEN 2
  ELSE IF Geq(market_viability, 55) THEN 3
  ELSE 4

pivot(ai_hype_beast, buzzword_density, market_viability, r5) ==
  LET branch == pivotBranch(ai_hype_beast, buzzword_density, market_viability) IN
  CASE branch = 1 -> clamp(Num(55 + FloorRandom(r5, 20)), 0, 100)
    [] branch = 2 -> clamp(Num(82 + FloorRandom(r5, 15)), 0, 100)
    [] branch = 3 -> clamp(Num(70 + FloorRandom(r5, 20)), 0, 100)
    [] branch = 4 -> clamp(Num(65 + FloorRandom(r5, 25)), 0, 100)

\* The five heuristic metrics of the handler for the hits of the three
\* keyword lists and the word count of an idea, with the five values
\* Math.random() returns, in the order the handler draws them.
heuristicsOf(ai_hits, buzz_hits, cringe_hits, nwords, r1, r2, r3, r4, r5) ==
  LET ai_hype_beast == scoreFromHits(ai_hits, 25, r1)
      buzzRaw == scoreFromHits(buzz_hits, 20, r2)
      buzzword_density == clamp(buzzRaw, 0, 100)
      cringe_founder_energy == scoreFromHits(cringe_hits, 30, r3)
      jitter == jitterOf(r4)
      market_viability ==
        clamp(Plus(marketBase(nwords, ai_hype_beast, buzzword_density), Num(jitter)), 0, 100)
      pivot_to_ai_probability == pivot(ai_hype_beast, buzzword_density, market_viability, r5)
  IN [ai_hype_beast |-> ai_hype_beast,
      buzzword_density |-> buzzword_density,
      cringe_founder_energy |-> cringe_founder_energy,
      market_viability |-> market_viability,
      pivot_to_ai_probability |-> pivot_to_ai_probability]

\* The five heuristic metrics of the handler for an idea text.
heuristics(idea, r1, r2, r3, r4, r5) ==
  heuristicsOf(aiHits[idea], buzzHits[idea], cringeHits[idea], words[idea], r1, r2, r3, r4, r5)

\* composite_score of the seven metrics
compositeOfSix(h, yc, del) ==
  clamp(MathRound(DivBy(
    Plus(h.ai_hype_beast, Plus(h.buzzword_density, Plus(h.cringe_founder_energy,
      Plus(h.market_viability, Plus(h.pivot_to_ai_probability, yc))))), 7)), 0, 100)
composite(h, yc, del) ==
  clamp(MathRound(DivBy(
    Plus(h.ai_hype_beast, Plus(h.buzzword_density, Plus(h.cringe_founder_energy,
      Plus(h.market_viability, Plus(h.pivot_to_ai_probability, Plus(yc, del)))))), 7)), 0, 100)

\* The result object the handler builds from the heuristics h and the
\* parsed reply llmJson.
scoreSetSpread(h, llmJson) ==
  LET yc_bait_score == clamp(ToNumber(llmJson.yc_bait_score), 0, 100)
      delusion_index == clamp(ToNumber(llmJson.delusion_index), 55, 100)
  IN [ai_hype_beast |-> IF llmJson.ai_hype_beast.k = "undefined" THEN h.ai_hype_beast
                        ELSE clamp(ToNumber(llmJson.ai_hype_beast), 0, 100),
      buzzword_density |-> h.buzzword_density,
      cringe_founder_energy |-> h.cringe_founder_energy,
      market_viability |-> h.market_viability,
      pivot_to_ai_probability |-> h.pivot_to_ai_probability,
      yc_bait_score |-> yc_bait_score,
      delusion_index |-> delusion_index,
      founder_rank |-> llmJson.founder_rank,
      goblin_verdict |-> llmJson.goblin_verdict,
      composite_score |-> composite(h, yc_bait_score, delusion_index)]
scoreSet(h, llmJson) ==
  LET yc_bait_score == clamp(ToNumber(llmJson.yc_bait_score), 0, 100)
      delusion_index == clamp(ToNumber(llmJson.delusion_index), 55, 100)
  IN [ai_hype_beast |-> h.ai_hype_beast,
      buzzword_density |-> h.buzzword_density,
      cringe_founder_energy |-> h.cringe_founder_energy,
      market_viability |-> h.market_viability,
      pivot_to_ai_probability |-> h.pivot_to_ai_probability,
      yc_bait_score |-> yc_bait_score,
      delusion_index |-> delusion_index,
      founder_rank |-> llmJson.founder_rank,
      goblin_verdict |-> llmJson.goblin_verdict,
      composite_score |-> composite(h, yc_bait_score, delusion_index)]

\* The row the handler inserts into scores.
scoreRowWithoutComposite(q, set) ==
  [idea_id |-> q.idea_id, user_id |-> q.user_id,
   scores |-> [set EXCEPT !.composite_score = Num(0)]]
scoreRow(q, set) ==
  [idea_id |-> q.idea_id, user_id |-> q.user_id, scores |-> set]

\* idea_id && user_id
shouldPersistEither(q) == q.idea_id # "" \/ q.user_id # ""
shouldPersist(q) == q.idea_id # "" /\ q.user_id # ""

\* The idea of a request body: absent, a text, a number or an object.
NoIdea == [k |-> "undefined", txt |-> <<>>, num |-> 0]
TextIdea(t) == [k |-> "string", txt |-> t, num |-> 0]
NumberIdea(n) == [k |-> "number", txt |-> <<>>, num |-> n]
ObjectIdea == [k |-> "object", txt |-> <<>>, num |-> 0]

\* !idea
Falsy(idea) ==
  CASE idea.k = "undefined" -> TRUE
    [] idea.k = "string" -> idea.txt = <<>>
    [] idea.k = "number" -> idea.num = 0
    [] idea.k = "object" -> FALSE

Request(method, xff, remote, idea, idea_id, user_id) ==
  [method |-> method, xff |-> xff, remote |-> remote,
   idea |-> idea, idea_id |-> idea_id, user_id |-> user_id]

\* The caller identity: the first address of the x-forwarded-for header,
\* else the socket's remote address, else "unknown". An absent header is
\* the empty sequence and an absent remote address the empty string.
ClientIp(q) ==
  IF q.xff # <<>> THEN q.xff[1]
  ELSE IF q.remote # "" THEN q.remote
  ELSE "unknown"

Callers ==
  { [xff |-> <<"a", "b">>, remote |-> "b"],
    [xff |-> <<>>, remote |-> "b"],
    [xff |-> <<>>, remote |-> ""] }

Bodies ==
  { [idea |-> NoIdea, idea_id |-> "i1", user_id |-> "u1"],
    [idea |-> TextIdea(Empty), idea_id |-> "i1", user_id |-> "u1"],
    [idea |-> TextIdea(Blank), idea_id |-> "", user_id |-> ""],
    [idea |-> TextIdea(DogWalking), idea_id |-> "i1", user_id |-> "u1"],
    [idea |-> TextIdea(AiSaas), idea_id |-> "i1", user_id |-> ""],
    [idea |-> TextIdea(AiChair), idea_id |-> "i1", user_id |-> "u1"],
    [idea |-> NumberIdea(7), idea_id |-> "i1", user_id |-> "u1"] }

RequestsOf(callers, bodies) ==
  { Request("POST", c.xff, c.remote, b.idea, b.idea_id, b.user_id) : c \in callers, b \in bodies }
  \cup { Request("GET", c.xff, c.remote, NoIdea, "", "") : c \in callers }

\* The requests of one caller, with every body.
Requests == RequestsOf({c \in Callers : c.xff # <<>>}, Bodies)

\* The requests of every caller that carry no idea: the handler answers
\* them once the limiter has decided.
ProbeRequests ==
  { Request("POST", c.xff, c.remote, NoIdea, "", "") : c \in Callers }

\* The values of Math.random() the handler's runs are explored with, as the
\* five draws of one run: the least and the greatest of each draw, and two
\* mixed runs.
Least == 0
Middle == RandomSteps \div 2
Greatest == RandomSteps - 1
RandomRuns ==
  { <<Least, Least, Least, Least, Least>>,
    <<Greatest, Greatest, Greatest, Greatest, Greatest>>,
    <<Least, Greatest, Middle, Least, Greatest>>,
    <<Greatest, Least, Middle, Greatest, Middle>> }

VARIABLES
  pc,        \* per request slot: where its handler invocation stands
  req,       \* the request being handled (a sequence of at most one)
  heur,      \* the heuristics computed for it (at most one)
  upstream,  \* the upstream answer being read (at most one)
  result,    \* the result object built (at most one)
  sent,      \* the responses sent for the request, in order
  inserts,   \* the rows the request submitted to scores
  stored,    \* the rows of the request that scores accepted
  fetches    \* the number of upstream calls the request issued

handlerVars == <<pc, req, heur, upstream, result, sent, inserts, stored, fetches>>

\* A call of scoreFromHits on its own: its arguments, the value of
\* Math.random(), and what it computed once it has returned (at most one).
VARIABLE probe

\* The idea page of one browser, and the rows of the ideas table.
VARIABLES
  page,      \* where handleSubmit stands, what it captured, sent and showed
  ideas      \* the rows of ideas, in the order of their insertion

pageVars == <<page, ideas>>

\* The page as it is first rendered: nothing submitted, nothing shown, and
\* no row in ideas.
PageInit ==
  /\ page = [at |-> "idle", idea |-> <<>>, userId |-> "", submits |-> 0,
             posted |-> <<>>, alerts |-> <<>>, scores |-> <<>>]
  /\ ideas = <<>>

vars == <<rateLimiter, now, streak, used, pc, req, heur, upstream, result, sent, inserts, stored,
          fetches, probe, page, ideas>>

Slots == DOMAIN pc

Failure(status, message) == [status |-> status, error |-> message, result |-> <<>>]
Success(set) == [status |-> 200, error |-> "", result |-> <<set>>]

ScoreCall(hits, ramp10, rnd) == [hits |-> hits, ramp10 |-> ramp10, rnd |-> rnd, out |-> <<>>]

\* No invocation of the handler has begun in any of the slots.
HandlerInit(slots) ==
  /\ pc = [r \in slots |-> "idle"]
  /\ req = [r \in slots |-> <<>>]
  /\ heur = [r \in slots |-> <<>>]
  /\ upstream = [r \in slots |-> <<>>]
  /\ result = [r \in slots |-> <<>>]
  /\ sent = [r \in slots |-> <<>>]
  /\ inserts = [r \in slots |-> <<>>]
  /\ stored = [r \in slots |-> <<>>]
  /\ fetches = [r \in slots |-> 0]

Init ==
  /\ LimiterInit
  /\ HandlerInit({1})
  /\ PageInit
  /\ probe = ScoreCall(0, 20, Least)

\* res.status(s).json(body), returned: the invocation ends.
RespondTwice(r, response) ==
  /\ sent' = [sent EXCEPT ![r] = Append(Append(@, response), response)]
  /\ pc' = [pc EXCEPT ![r] = "done"]
  /\ heur' = [heur EXCEPT ![r] = <<>>]
  /\ result' = [result EXCEPT ![r] = <<>>]
Respond(r, response) ==
  /\ sent' = [sent EXCEPT ![r] = Append(@, response)]
  /\ pc' = [pc EXCEPT ![r] = "done"]
  /\ heur' = [heur EXCEPT ![r] = <<>>]
  /\ result' = [result EXCEPT ![r] = <<>>]

\* The handler from its entry to its first await: the method check, the
\* rate limit, the check of the idea, the heuristics, and the upstream call
\* issued.
Start(r, q, rnd) ==
  /\ pc[r] \in {"idle", "done"}
  /\ req' = [req EXCEPT ![r] = <<q>>]
  /\ upstream' = [upstream EXCEPT ![r] = <<>>]
  /\ result' = [result EXCEPT ![r] = <<>>]
  /\ inserts' = [inserts EXCEPT ![r] = <<>>]
  /\ stored' = [stored EXCEPT ![r] = <<>>]
  /\ UNCHANGED <<now, probe, pageVars>>
  /\ IF q.method # "POST"
     THEN /\ sent' = [sent EXCEPT ![r] = <<Failure(405, "Method not allowed")>>]
          /\ pc' = [pc EXCEPT ![r] = "done"]
          /\ heur' = [heur EXCEPT ![r] = <<>>]
          /\ fetches' = [fetches EXCEPT ![r] = 0]
          /\ UNCHANGED <<rateLimiter, streak, used>>
     ELSE LET ip == ClientIp(q)
              lim == getRateLimit(rateLimiter, ip, now)
          IN /\ CanCall(ip, now)
             /\ rateLimiter' = lim.cache
             /\ streak' = StreakAfter(rateLimiter, lim.cache, ip, lim, now)
             /\ used' = UsedAfter(ip)
             /\ IF ~lim.allowed
                THEN /\ sent' = [sent EXCEPT ![r] =
                                   <<Failure(429, "The Oracle needs rest. Try again later.")>>]
                     /\ pc' = [pc EXCEPT ![r] = "done"]
                     /\ heur' = [heur EXCEPT ![r] = <<>>]
                     /\ fetches' = [fetches EXCEPT ![r] = 0]
                ELSE IF Falsy(q.idea)
                THEN /\ sent' = [sent EXCEPT ![r] = <<Failure(400, "Missing idea")>>]
                     /\ pc' = [pc EXCEPT ![r] = "done"]
                     /\ heur' = [heur EXCEPT ![r] = <<>>]
                     /\ fetches' = [fetches EXCEPT ![r] = 0]
                ELSE IF q.idea.k # "string"
                THEN \* idea.trim is not a function: the catch block answers
                     /\ sent' = [sent EXCEPT ![r] = <<Failure(500, "Internal server error")>>]
                     /\ pc' = [pc EXCEPT ![r] = "done"]
                     /\ heur' = [heur EXCEPT ![r] = <<>>]
                     /\ fetches' = [fetches EXCEPT ![r] = 0]
                ELSE /\ sent' = [sent EXCEPT ![r] = <<>>]
                     /\ pc' = [pc EXCEPT ![r] = "fetch"]
                     /\ heur' = [heur EXCEPT ![r] = <<heuristics(q.idea.txt, rnd[1], rnd[2], rnd[3], rnd[4], rnd[5])>>]
                     /\ fetches' = [fetches EXCEPT ![r] = 1]

\* The upstream call rejects (the service is unreachable): the catch block
\* answers.
FetchRejectsAndRetries(r) ==
  /\ pc[r] = "fetch"
  /\ IF fetches[r] < 2
     THEN /\ fetches' = [fetches EXCEPT ![r] = @ + 1]
          /\ UNCHANGED <<sent, pc, heur, result>>
     ELSE /\ Respond(r, Failure(500, "Internal server error"))
          /\ UNCHANGED fetches
  /\ UNCHANGED <<limiterVars, probe, pageVars, req, upstream, inserts, stored>>
FetchRejects(r) ==
  /\ pc[r] = "fetch"
  /\ Respond(r, Failure(500, "Internal server error"))
  /\ UNCHANGED <<limiterVars, probe, pageVars, req, upstream, inserts, stored, fetches>>

\* The upstream call resolves with an answer; the handler goes on to read
\* its body, as text after a non-success status and as JSON otherwise.
FetchResolvesWritesBack(r, answer) ==
  /\ pc[r] = "fetch"
  /\ upstream' = [upstream EXCEPT ![r] = <<answer>>]
  /\ pc' = [pc EXCEPT ![r] = IF answer.ok THEN "json" ELSE "text"]
  /\ rateLimiter' = LruSet(rateLimiter, ClientIp(req[r][1]), 1, now)
  /\ UNCHANGED <<now, streak, used, probe, pageVars, req, heur, result, sent, inserts, stored, fetches>>
FetchResolves(r, answer) ==
  /\ pc[r] = "fetch"
  /\ upstream' = [upstream EXCEPT ![r] = <<answer>>]
  /\ pc' = [pc EXCEPT ![r] = IF answer.ok THEN "json" ELSE "text"]
  /\ UNCHANGED <<limiterVars, probe, pageVars, req, heur, result, sent, inserts, stored, fetches>>

\* response.text() settles after a non-success status: the handler answers
\* 500 itself, or its catch block does when the read rejects.
TextSettlesRefunds(r, rejects) ==
  /\ pc[r] = "text"
  /\ Respond(r, IF rejects THEN Failure(500, "Internal server error")
                ELSE Failure(500, "LLM request failed"))
  /\ LET ip == ClientIp(req[r][1])
         i == IndexOf(rateLimiter, ip)
     IN rateLimiter' = IF i = 0 THEN rateLimiter
                       ELSE [rateLimiter EXCEPT ![i].value = @ - 1]
  /\ UNCHANGED <<now, streak, used, probe, pageVars, req, upstream, inserts, stored, fetches>>
TextSettles(r, rejects) ==
  /\ pc[r] = "text"
  /\ Respond(r, IF rejects THEN Failure(500, "Internal server error")
                ELSE Failure(500, "LLM request failed"))
  /\ UNCHANGED <<limiterVars, probe, pageVars, req, upstream, inserts, stored, fetches>>

\* What the handler makes of the body of an answer with a success status:
\* an exception (caught), or the parsed reply.
readReply(answer) ==
  LET parsed == JsonParse(TrimTokens(StripFences(answer.content))) IN
  IF answer.kind # "content" THEN [throws |-> TRUE, value |-> JsonTexts["null"]]
  ELSE IF parsed.throws THEN parsed
  ELSE IF parsed.value.isNull THEN [throws |-> TRUE, value |-> parsed.value]
  ELSE parsed

\* response.json() settles: the handler parses the reply, builds the
\* result and either submits the row (both ids given) or answers.
JsonSettles(r) ==
  /\ pc[r] = "json"
  /\ LET q == req[r][1]
         reply == readReply(upstream[r][1])
         set == scoreSet(heur[r][1], reply.value)
     IN IF reply.throws
        THEN /\ Respond(r, Failure(500, "Internal server error"))
             /\ UNCHANGED inserts
        ELSE IF shouldPersist(q)
        THEN /\ result' = [result EXCEPT ![r] = <<set>>]
             /\ inserts' = [inserts EXCEPT ![r] = Append(@, scoreRow(q, set))]
             /\ pc' = [pc EXCEPT ![r] = "insert"]
             /\ UNCHANGED <<sent, heur>>
        ELSE /\ Respond(r, Success(set))
             /\ UNCHANGED inserts
  /\ UNCHANGED <<limiterVars, probe, pageVars, req, upstream, stored, fetches>>

\* The insert settles: accepted, refused with an error (logged), or
\* rejected (caught).
InsertSettles(r, outcome) ==
  /\ pc[r] = "insert"
  /\ stored' = [stored EXCEPT ![r] = IF outcome = "ok" THEN inserts[r] ELSE @]
  /\ Respond(r, IF outcome = "rejects" THEN Failure(500, "Internal server error")
                ELSE Success(result[r][1]))
  /\ UNCHANGED <<limiterVars, probe, pageVars, req, upstream, inserts, fetches>>

\* The answers whose content is the well-formed reply between fences.
ParsedReplyIsGood(answer) ==
  answer.ok /\ answer.kind = "content" /\ Len(answer.content) = 5 /\ answer.content[3] = "{good}"

\* Time passes.
Tick ==
  /\ now < MaxTime
  /\ now' = now + 1
  /\ UNCHANGED <<rateLimiter, streak, used, handlerVars, probe, pageVars>>

Next ==
  \/ \E r \in Slots, q \in Requests, rnd \in RandomRuns : Start(r, q, rnd)
  \/ \E r \in Slots : FetchRejects(r)
  \/ \E r \in Slots, answer \in Upstreams : FetchResolves(r, answer)
  \/ \E r \in Slots, rejects \in BOOLEAN : TextSettles(r, rejects)
  \/ \E r \in Slots : JsonSettles(r)
  \/ \E r \in Slots, outcome \in {"ok", "error", "rejects"} : InsertSettles(r, outcome)
  \/ Tick

Spec == Init /\ [][Next]_vars

\* The limiter under the requests of every caller that the handler answers
\* at once, as time passes.
NextLimiter ==
  \/ \E r \in Slots, q \in ProbeRequests, rnd \in {<<Least, Least, Least, Least, Least>>} : Start(r, q, rnd)
  \/ Tick

SpecLimiter == Init /\ [][NextLimiter]_vars

\* The handler invoked for several requests of one caller at once: the
\* invocations interleave at their awaits, and each stretch between two
\* awaits runs to its end before another invocation goes on.
MaxInFlight == 2

ConcurrentRequests ==
  RequestsOf({c \in Callers : c.xff # <<>>},
             {b \in Bodies : b.idea = TextIdea(DogWalking)})

InitConcurrent ==
  /\ LimiterInit
  /\ HandlerInit(1..MaxInFlight)
  /\ PageInit
  /\ probe = ScoreCall(0, 20, Least)

NextConcurrent ==
  \/ \E r \in Slots, q \in ConcurrentRequests :
       Start(r, q, <<Least, Least, Least, Least, Least>>)
  \/ \E r \in Slots : FetchRejects(r)
  \/ \E r \in Slots :
       \E answer \in {a \in Upstreams : ~a.ok \/ ParsedReplyIsGood(a)} : FetchResolves(r, answer)
  \/ \E r \in Slots : TextSettles(r, FALSE)
  \/ \E r \in Slots : JsonSettles(r)
  \/ \E r \in Slots, outcome \in {"ok", "error"} : InsertSettles(r, outcome)
  \/ Tick

SpecConcurrent == InitConcurrent /\ [][NextConcurrent]_vars

\* scoreFromHits called on its own, for every number of hits up to MaxHits,
\* the three ramps the handler passes and one value of Math.random() for
\* each jitter; the call is recorded with the base of the same call with
\* one more hit.
MaxHits == 8

Ramps10 == {20, 25, 30}

JitterDraws == {(RandomSteps \div 14) * j : j \in 0..13}

InitScore ==
  /\ LimiterInit
  /\ HandlerInit({1})
  /\ PageInit
  /\ probe \in {ScoreCall(h, ramp10, rnd) : h \in 0..MaxHits, ramp10 \in Ramps10, rnd \in JitterDraws}

Score ==
  /\ probe.out = <<>>
  /\ probe' = [probe EXCEPT !.out =
                 <<[base |-> baseFromHits(probe.hits, probe.ramp10),
                    baseOfNext |-> baseFromHits(probe.hits + 1, probe.ramp10),
                    score |-> scoreFromHits(probe.hits, probe.ramp10, probe.rnd),
                    embedded |-> scoreFromHitsEmbedded(probe.hits, probe.ramp10, probe.rnd),
                    jitter |-> jitterOf(probe.rnd)]>>]
  /\ UNCHANGED <<limiterVars, handlerVars, pageVars>>

NextScore == Score

SpecScore == InitScore /\ [][NextScore]_vars

\* The handler under requests whose augmentation fails: the upstream call
\* rejects, or its answer has a non-success status or a body the handler
\* cannot parse into an object.
FailingUpstreams == {a \in Upstreams : ~a.ok \/ readReply(a).throws}

FailingRequests ==
  {q \in ConcurrentRequests : q.method = "POST"}

NextFailing ==
  \/ \E r \in Slots, q \in FailingRequests :
       Start(r, q, <<Least, Least, Least, Least, Least>>)
  \/ \E r \in Slots : FetchRejects(r)
  \/ \E r \in Slots, answer \in FailingUpstreams : FetchResolves(r, answer)
  \/ \E r \in Slots, rejects \in BOOLEAN : TextSettles(r, rejects)
  \/ \E r \in Slots : JsonSettles(r)
  \/ Tick

SpecFailing == Init /\ [][NextFailing]_vars

\* The handler under requests of every kind of answer, with every awaited
\* call settling in the end: the upstream call resolves or rejects, the
\* body is read, the insert settles, and the continuation after each runs.
RespondingRequests ==
  RequestsOf({c \in Callers : c.xff # <<>>},
             {b \in Bodies : b.idea \in {NoIdea, TextIdea(DogWalking)}})

RespondingUpstreams ==
  {a \in Upstreams : ~a.ok \/ a.kind = "notjson" \/ ParsedReplyIsGood(a)}

NextResponding ==
  \/ \E r \in Slots, q \in RespondingRequests :
       Start(r, q, <<Least, Least, Least, Least, Least>>)
  \/ \E r \in Slots : FetchRejects(r)
  \/ \E r \in Slots, answer \in RespondingUpstreams : FetchResolves(r, answer)
  \/ \E r \in Slots, rejects \in BOOLEAN : TextSettles(r, rejects)
  \/ \E r \in Slots : JsonSettles(r)
  \/ \E r \in Slots, outcome \in {"ok", "error", "rejects"} : InsertSettles(r, outcome)
  \/ Tick

\* A pending await of request r settles and the continuation of the handler
\* runs: the request leaves the stage it waits in for a later one.
Proceeds(r) ==
  /\ pc[r] \in {"fetch", "text", "json", "insert"}
  /\ pc' \in {[pc EXCEPT ![r] = to] : to \in {"text", "json", "insert", "done"}}
  /\ pc'[r] # pc[r]

\* Every promise the handler awaits (the upstream fetch, the reading of its
\* body, the insert) settles, and the event loop then runs the handler on.
Settling == WF_pc(Proceeds(1))

SpecResponding == Init /\ [][NextResponding]_vars /\ Settling

\* The idea page. At most MaxSubmits submissions are followed, and the k-th
\* scoring request of the page is handled in slot k.
MaxSubmits == 2

IdeaIds == <<"i1", "i2", "i3", "i4">>

\* The texts typed and the user ids held when the button is pressed; the
\* empty user id is the null of a page whose user is not known.
PageTexts == {Blank, DogWalking}
UserIds == {"", "u1"}

\* What the insert into ideas, selected down to the id of the one row,
\* resolves to: the row's id, an error, or neither.
InsertReply(outcome, id) ==
  [data |-> IF outcome = "row" THEN <<id>> ELSE <<>>,
   error |-> outcome \in {"error", "unreadable"}]

\* insertError || !inserted
insertFailed(reply) == reply.error \/ reply.data = <<>>

\* The request fetch sends to /api/score.
ScoreRequestWithoutUser(idea, inserted_id, userId) ==
  Request("POST", <<"a", "b">>, "b", TextIdea(idea), inserted_id, "")
ScoreRequest(idea, inserted_id, userId) ==
  Request("POST", <<"a", "b">>, "b", TextIdea(idea), inserted_id, userId)

\* handleSubmit, from the press of the button to its first await: nothing
\* happens for a blank idea or an unknown user, else the insert into ideas
\* is issued. The button is disabled while a submission is loading.
handleSubmit(idea, userId) ==
  /\ page.at = "idle"
  /\ page.submits < MaxSubmits
  /\ IF trim(idea) = <<>> \/ userId = ""
     THEN UNCHANGED page
     ELSE page' = [page EXCEPT !.at = "inserting", !.idea = idea, !.userId = userId,
                               !.submits = @ + 1, !.scores = <<>>]
  /\ UNCHANGED <<limiterVars, handlerVars, probe, ideas>>

\* The insert into ideas settles. The row is written and its id returned,
\* or the insert is refused, or the row is written but cannot be read back,
\* or nothing comes back at all. A failed insert is alerted and ends the
\* submission; otherwise the scoring request is sent.
IdeasInsertSettles(outcome) ==
  /\ page.at = "inserting"
  /\ LET row == [id |-> IdeaIds[Len(ideas) + 1], idea_text |-> page.idea, user_id |-> page.userId]
         reply == InsertReply(outcome, row.id)
     IN /\ ideas' = IF outcome \in {"row", "unreadable"} THEN Append(ideas, row) ELSE ideas
        /\ page' = IF insertFailed(reply)
                   THEN [page EXCEPT !.at = "idle", !.alerts = Append(@, "Insert failed")]
                   ELSE [page EXCEPT !.at = "scoring",
                                     !.posted = Append(@, ScoreRequest(page.idea, reply.data[1], page.userId))]
  /\ UNCHANGED <<limiterVars, handlerVars, probe>>

\* The scoring request the page sent last reaches the handler.
Posted(r) ==
  /\ page.at = "scoring"
  /\ r = Len(page.posted)
  /\ pc[r] = "idle"
  /\ Start(r, page.posted[r], <<Least, Least, Least, Least, Least>>)

\* The scoring request never reaches the handler and fetch rejects: nothing
\* catches it and the page keeps loading.
PostRejects ==
  /\ page.at = "scoring"
  /\ pc[Len(page.posted)] = "idle"
  /\ page' = [page EXCEPT !.at = "hung"]
  /\ UNCHANGED <<limiterVars, handlerVars, probe, ideas>>

\* The response of the handler arrives: an error is alerted, a success is
\* shown.
ScoreAnswered ==
  /\ page.at = "scoring"
  /\ pc[Len(page.posted)] = "done"
  /\ LET res == sent[Len(page.posted)][1]
     IN page' = IF res.status # 200
                THEN [page EXCEPT !.at = "idle", !.alerts = Append(@, "Error computing scores")]
                ELSE [page EXCEPT !.at = "idle", !.scores = res.result]
  /\ UNCHANGED <<limiterVars, handlerVars, probe, ideas>>

InitPage ==
  /\ LimiterInit
  /\ HandlerInit(1..MaxSubmits)
  /\ PageInit
  /\ probe = ScoreCall(0, 20, Least)

NextPage ==
  \/ \E idea \in PageTexts, userId \in UserIds : handleSubmit(idea, userId)
  \/ \E outcome \in {"row", "error", "unreadable", "empty"} : IdeasInsertSettles(outcome)
  \/ \E r \in Slots : Posted(r)
  \/ PostRejects
  \/ \E r \in Slots : FetchRejects(r)
  \/ \E r \in Slots, answer \in RespondingUpstreams : FetchResolves(r, answer)
  \/ \E r \in Slots, rejects \in BOOLEAN : TextSettles(r, rejects)
  \/ \E r \in Slots : JsonSettles(r)
  \/ \E r \in Slots, outcome \in {"ok", "error", "rejects"} : InsertSettles(r, outcome)
  \/ ScoreAnswered

SpecPage == InitPage /\ [][NextPage]_vars

\* The parts of the heuristics called on their own: the pivot decision on
\* metrics around its thresholds, the market viability base on word counts
\* up to MaxWords and hype scores, and the five heuristics together on hit
\* counts up to MaxHits.
MaxWords == 38

PivotCall(ai, buzz, mv, rnd) ==
  [fn |-> "pivot", ai |-> ai, buzz |-> buzz, mv |-> mv, rnd |-> rnd, out |-> <<>>]

MarketCall(nwords, ai, buzz) ==
  [fn |-> "marketBase", nwords |-> nwords, ai |-> ai, buzz |-> buzz, out |-> <<>>]

HeuristicsCall(ai_hits, buzz_hits, nwords, draws) ==
  [fn |-> "heuristics", ai_hits |-> ai_hits, buzz_hits |-> buzz_hits, nwords |-> nwords,
   draws |-> draws, out |-> <<>>]

AiScores == {0, 59, 60, 100}
BuzzScores == {0, 49, 50, 100}
MarketScores == {0, 54, 55, 100}
HypeScores == {53, 59, 60, 66, 100}
WordCounts == {1, 3, 40}
Extremes == {Least, Greatest}

MetricCalls ==
  {PivotCall(ai, buzz, mv, rnd) :
     ai \in AiScores, buzz \in BuzzScores, mv \in MarketScores, rnd \in {Least, Middle, Greatest}}
  \cup {MarketCall(n, ai, buzz) : n \in 1..MaxWords, ai \in HypeScores, buzz \in HypeScores}
  \cup {HeuristicsCall(a, b, n, <<r1, r2, Middle, r4, r5>>) :
          a \in 0..MaxHits, b \in 0..MaxHits, n \in WordCounts,
          r1 \in Extremes, r2 \in Extremes, r4 \in Extremes, r5 \in Extremes}

InitMetrics ==
  /\ LimiterInit
  /\ HandlerInit({1})
  /\ PageInit
  /\ probe \in MetricCalls

Pivot ==
  /\ probe.fn = "pivot" /\ probe.out = <<>>
  /\ probe' = [probe EXCEPT !.out =
                 <<pivot(Num(probe.ai), Num(probe.buzz), Num(probe.mv), probe.rnd)>>]
  /\ UNCHANGED <<limiterVars, handlerVars, pageVars>>

Market ==
  /\ probe.fn = "marketBase" /\ probe.out = <<>>
  /\ probe' = [probe EXCEPT !.out =
                 <<[base |-> marketBase(probe.nwords, Num(probe.ai), Num(probe.buzz)),
                    moreWords |-> marketBase(probe.nwords + 1, Num(probe.ai), Num(probe.buzz)),
                    moreHype |-> marketBase(probe.nwords, Num(probe.ai + 1), Num(probe.buzz)),
                    bonus |-> specificityBonus(probe.nwords),
                    bonusOfMore |-> specificityBonus(probe.nwords + 1)]>>]
  /\ UNCHANGED <<limiterVars, handlerVars, pageVars>>

Heuristics ==
  /\ probe.fn = "heuristics" /\ probe.out = <<>>
  /\ LET h == heuristicsOf(probe.ai_hits, probe.buzz_hits, 0, probe.nwords,
                           probe.draws[1], probe.draws[2], probe.draws[3], probe.draws[4], probe.draws[5])
     IN probe' = [probe EXCEPT !.out =
                    <<[metrics |-> h,
                       branch |-> pivotBranch(h.ai_hype_beast, h.buzzword_density,
                                              h.market_viability)]>>]
  /\ UNCHANGED <<limiterVars, handlerVars, pageVars>>

NextMetrics == Pivot \/ Market \/ Heuristics

SpecMetrics == InitMetrics /\ [][NextMetrics]_vars

\* ------------------------------------------------------------- properties

Last(seq) == seq[Len(seq)]

\* C1: an identity without an entry that calls getRateLimit six times in a
\* row, with no expiry and no eviction in between, is allowed five times
\* with remaining 4, 3, 2, 1, 0 and rejected the sixth time with remaining 0.
C1_SixCalls ==
  \A ip \in Identities : \A i \in 1..Len(streak[ip]) :
    /\ i = 1 => streak[ip][i].allowed /\ streak[ip][i].remaining = 4
    /\ i = 2 => streak[ip][i].allowed /\ streak[ip][i].remaining = 3
    /\ i = 3 => streak[ip][i].allowed /\ streak[ip][i].remaining = 2
    /\ i = 4 => streak[ip][i].allowed /\ streak[ip][i].remaining = 1
    /\ i = 5 => streak[ip][i].allowed /\ streak[ip][i].remaining = 0
    /\ i = 6 => ~streak[ip][i].allowed /\ streak[ip][i].remaining = 0

C1_Witness == \E ip \in Identities : Len(streak[ip]) >= 6

\* C2: every stored count is in 1..5, and it is the number of allowed
\* calls of the identity's run: a rejected call is not counted.
C2_CountBounded ==
  \A i \in 1..Len(rateLimiter) :
    LET e == rateLimiter[i] IN
    /\ e.value \in 1..5
    /\ e.value = Cardinality({j \in 1..Len(streak[e.key]) : streak[e.key][j].allowed})

C2_Witness ==
  \E i \in 1..Len(rateLimiter) :
    /\ rateLimiter[i].value = 5
    /\ streak[rateLimiter[i].key] # <<>>
    /\ ~Last(streak[rateLimiter[i].key]).allowed

\* C3: the first call of an identity whose entry lapsed after it had been
\* rejected is allowed, with remaining 4.
C3_AllowedAfterLapse ==
  \A ip \in Identities :
    (streak[ip] # <<>> /\ streak[ip][1].origin = "lapsed throttled")
      => streak[ip][1].allowed /\ streak[ip][1].remaining = 4

C3_Witness ==
  \E ip \in Identities : streak[ip] # <<>> /\ streak[ip][1].origin = "lapsed throttled"

\* The responses sent for the request of slot r with status 200.
Successes(r) == {i \in 1..Len(sent[r]) : sent[r][i].status = 200}

ScoreSetOf(r, i) == sent[r][i].result[1]

InRange(x, lo, hi) == IsInt(x) /\ lo <= x.n /\ x.n <= hi

\* C4: a request without an idea is answered 400 and changes nothing: the
\* limiter is as it was before the request, no upstream call is issued and
\* nothing is submitted to scores.
C4_InputErrorNoSideEffects ==
  [][\A r \in Slots :
       (/\ pc[r] \in {"idle", "done"}
        /\ pc'[r] = "done"
        /\ now' = now
        /\ sent'[r] # <<>>
        /\ sent'[r][1].status = 400)
       => (/\ rateLimiter' = rateLimiter
           /\ fetches'[r] = 0
           /\ inserts'[r] = <<>>
           /\ stored'[r] = <<>>)]_vars

\* C5: a POST request without an idea is answered 400, never 429, however
\* many requests its identity has made.
C5_InputErrorBeforeRateLimit ==
  \A r \in Slots :
    (pc[r] = "done" /\ req[r] # <<>> /\ req[r][1].method = "POST" /\ Falsy(req[r][1].idea))
      => (Len(sent[r]) = 1 /\ sent[r][1].status = 400)

\* C6: each of the seven metrics of a 200 response is an integer in its
\* range: [55,100] for delusion_index and [0,100] for the other six.
C6_MetricsInRange ==
  \A r \in Slots : \A i \in Successes(r) :
    LET set == ScoreSetOf(r, i) IN
    /\ InRange(set.ai_hype_beast, 0, 100)
    /\ InRange(set.buzzword_density, 0, 100)
    /\ InRange(set.cringe_founder_energy, 0, 100)
    /\ InRange(set.market_viability, 0, 100)
    /\ InRange(set.pivot_to_ai_probability, 0, 100)
    /\ InRange(set.yc_bait_score, 0, 100)
    /\ InRange(set.delusion_index, 55, 100)

\* The reply of an answer whose content is one JSON text between optional
\* fences, and the required fields it lacks.
Required == {"yc_bait_score", "delusion_index", "founder_rank", "goblin_verdict"}

ParsedReply(answer) ==
  LET cleaned == TrimTokens(StripFences(answer.content)) IN
  IF answer.ok /\ answer.kind = "content" /\ Len(cleaned) = 1 /\ cleaned[1] \in DOMAIN JsonTexts
  THEN <<JsonTexts[cleaned[1]]>>
  ELSE <<>>

Lacks(reply) ==
  reply.isNull \/ \E f \in Required : reply[f].k = "undefined"

\* C7: a 200 response carries seven numeric metrics, a founder_rank and a
\* goblin_verdict, and a reply that lacks a required field ends in an error
\* response.
C7_NoPartialScoreSet ==
  \A r \in Slots :
    /\ \A i \in Successes(r) :
         LET set == ScoreSetOf(r, i) IN
         /\ ~set.ai_hype_beast.nan /\ ~set.buzzword_density.nan
         /\ ~set.cringe_founder_energy.nan /\ ~set.market_viability.nan
         /\ ~set.pivot_to_ai_probability.nan
         /\ ~set.yc_bait_score.nan /\ ~set.delusion_index.nan
         /\ set.founder_rank.k = "string" /\ set.goblin_verdict.k = "string"
    /\ (pc[r] = "done" /\ upstream[r] # <<>> /\ ParsedReply(upstream[r][1]) # <<>>
          /\ Lacks(ParsedReply(upstream[r][1])[1]))
         => (Len(sent[r]) = 1 /\ sent[r][1].status >= 400)

FounderRanks == {"Chad", "Beta", "Gamma", "Founder Extraordinaire"}

IsFounderRank(v) == v.k = "string" /\ v.str \in FounderRanks

\* C8: the founder_rank of a 200 response and of a row submitted to scores
\* is one of the four labels.
C8_RankEnumerated ==
  \A r \in Slots :
    /\ \A i \in Successes(r) : IsFounderRank(ScoreSetOf(r, i).founder_rank)
    /\ \A i \in 1..Len(inserts[r]) : IsFounderRank(inserts[r][i].scores.founder_rank)

Metrics(set) ==
  <<set.ai_hype_beast, set.buzzword_density, set.cringe_founder_energy,
    set.market_viability, set.pivot_to_ai_probability, set.yc_bait_score,
    set.delusion_index>>

RECURSIVE SumOf(_)
SumOf(ms) == IF ms = <<>> THEN 0 ELSE Head(ms).n + SumOf(Tail(ms))

Malformed(answer) ==
  \/ answer.kind = "notjson"
  \/ answer.kind = "content"
       /\ LET cleaned == TrimTokens(StripFences(answer.content)) IN
          ~(Len(cleaned) = 1 /\ cleaned[1] \in DOMAIN JsonTexts)

\* C10: after a non-success upstream status or a malformed reply body the
\* handler answers 500, with no ScoreSet, and submits no row.
C10_AugmentationFailureFatal ==
  \A r \in Slots :
    (pc[r] = "done" /\ upstream[r] # <<>>
       /\ (~upstream[r][1].ok \/ Malformed(upstream[r][1])))
      => (/\ Len(sent[r]) = 1
          /\ sent[r][1].status = 500
          /\ sent[r][1].result = <<>>
          /\ inserts[r] = <<>>
          /\ stored[r] = <<>>)

C10_Witness ==
  \E r \in Slots :
    /\ pc[r] = "done" /\ upstream[r] # <<>>
    /\ upstream[r][1].ok /\ upstream[r][1].kind = "content" /\ Malformed(upstream[r][1])
    /\ sent[r][1].status = 500

\* The request carries an idea: a POST whose idea is neither absent nor the
\* empty text.
CarriesIdea(q) ==
  q.method = "POST" /\ q.idea.k # "undefined" /\ ~(q.idea.k = "string" /\ q.idea.txt = <<>>)

\* C11: a request issues at most one upstream call, whatever the call's
\* outcome, and only a request that carries an idea and was not answered
\* 405, 429 or 400 issues one.
C11_OneUpstreamCall ==
  \A r \in Slots :
    /\ fetches[r] <= 1
    /\ fetches[r] = 1 =>
         /\ req[r] # <<>> /\ CarriesIdea(req[r][1])
         /\ \A i \in 1..Len(sent[r]) : sent[r][i].status \notin {405, 429, 400}

C11_Witness ==
  \E r \in Slots :
    /\ pc[r] = "done" /\ fetches[r] = 1
    /\ upstream[r] # <<>> /\ ~upstream[r][1].ok
    /\ Len(sent[r]) = 1 /\ sent[r][1].status = 500

\* C12: once the row is submitted to scores, the request is answered 200
\* with the ScoreSet of the row, however the insert ends.
C12_InsertOutcomeIgnored ==
  \A r \in Slots :
    (pc[r] = "done" /\ inserts[r] # <<>>)
      => (/\ Len(sent[r]) = 1
          /\ sent[r][1].status = 200
          /\ sent[r][1].result = <<inserts[r][1].scores>>)

\* The upstream reply of slot r was read and parsed into an object: the
\* handler got as far as the composite score.
Scored(r) ==
  /\ pc[r] \in {"insert", "done"}
  /\ req[r] # <<>> /\ upstream[r] # <<>>
  /\ ParsedReply(upstream[r][1]) # <<>>
  /\ ~ParsedReply(upstream[r][1])[1].isNull

\* C13: a row is submitted to scores, once, exactly when the handler got as
\* far as the composite score and the request names both idea_id and
\* user_id; with either missing the request is answered 200 and no row is
\* submitted.
C13_InsertIffBothIds ==
  \A r \in Slots :
    /\ Len(inserts[r]) <= 1
    /\ inserts[r] # <<>> <=>
         (Scored(r) /\ req[r][1].idea_id # "" /\ req[r][1].user_id # "")
    /\ (Scored(r) /\ pc[r] = "done" /\ (req[r][1].idea_id = "" \/ req[r][1].user_id = ""))
         => (Len(sent[r]) = 1 /\ sent[r][1].status = 200 /\ inserts[r] = <<>> /\ stored[r] = <<>>)

C13_Witness ==
  \E r \in Slots :
    /\ Scored(r) /\ pc[r] = "done"
    /\ req[r][1].idea_id # "" /\ req[r][1].user_id = ""
    /\ sent[r][1].status = 200 /\ inserts[r] = <<>>

\* C16: a POST whose idea is present but is not a text is answered 400 and
\* issues no upstream call.
C16_NonTextIdeaRejected ==
  \A r \in Slots :
    (pc[r] = "done" /\ req[r] # <<>> /\ req[r][1].method = "POST"
       /\ req[r][1].idea.k \notin {"undefined", "string"})
      => (Len(sent[r]) = 1 /\ sent[r][1].status = 400 /\ fetches[r] = 0)

HeuristicMetrics ==
  {"ai_hype_beast", "buzzword_density", "cringe_founder_energy", "market_viability",
   "pivot_to_ai_probability"}

SameHeuristics(h, set) == \A f \in HeuristicMetrics : set[f] = h[f]

\* C17: the five heuristic metrics of a 200 response and of a submitted row
\* are the ones computed before the upstream call was issued, from the idea
\* and the random draws alone, whatever the upstream reply holds.
C17_HeuristicsNotOverridden ==
  /\ [](\A r \in Slots : heur[r] # <<>> =>
          \E rnd \in RandomRuns :
            heur[r][1] = heuristics(req[r][1].idea.txt, rnd[1], rnd[2], rnd[3], rnd[4], rnd[5]))
  /\ [][\A r \in Slots : heur[r] # <<>> =>
          /\ \A i \in 1..Len(sent'[r]) :
               sent'[r][i].status = 200 => SameHeuristics(heur[r][1], sent'[r][i].result[1])
          /\ \A i \in 1..Len(inserts'[r]) : SameHeuristics(heur[r][1], inserts'[r][i].scores)]_vars

C17_Witness ==
  \E r \in Slots :
    /\ pc[r] = "done" /\ upstream[r] # <<>>
    /\ ParsedReply(upstream[r][1]) # <<>>
    /\ ParsedReply(upstream[r][1])[1].ai_hype_beast.k = "number"
    /\ Len(sent[r]) = 1 /\ sent[r][1].status = 200
    /\ sent[r][1].result[1].ai_hype_beast # ParsedReply(upstream[r][1])[1].ai_hype_beast.num
    /\ inserts[r] # <<>>

\* C14: a call is rejected only after five allowed calls of the identity
\* since its entry was last absent, and the first call of an identity whose
\* entry was evicted is allowed with remaining 4.
C14_ForgettingIsPermissive ==
  \A ip \in Identities :
    /\ \A i \in 1..Len(streak[ip]) :
         ~streak[ip][i].allowed =>
           Cardinality({j \in 1..(i - 1) : streak[ip][j].allowed}) >= REQUESTS_PER_HOUR
    /\ (streak[ip] # <<>> /\ streak[ip][1].origin = "evicted")
         => (streak[ip][1].allowed /\ streak[ip][1].remaining = 4)

C14_Witness ==
  \E ip \in Identities : streak[ip] # <<>> /\ streak[ip][1].origin = "evicted"

PositionIn(seq, k) == CHOOSE j \in 1..Len(seq) : seq[j] = k

\* The tracked identity whose latest call is the oldest.
LeastRecent(cache) ==
  CHOOSE k \in Tracked(cache) :
    \A o \in Tracked(cache) : PositionIn(used, k) <= PositionIn(used, o)

EntryOf(cache, k) == cache[IndexOf(cache, k)]

\* This step is a getRateLimit call for ip: an invocation begins for a POST
\* of ip and the limiter or its history moves (every call moves one).
Called(ip) ==
  \E r \in Slots :
    /\ pc[r] \in {"idle", "done"} /\ pc'[r] \in {"done", "fetch"}
    /\ <<rateLimiter, streak>>' # <<rateLimiter, streak>>
    /\ req'[r] # <<>> /\ req'[r][1].method = "POST" /\ ClientIp(req'[r][1]) = ip

\* C18: the limiter never tracks more identities than its capacity, and a
\* call of an identity without an entry at a full limiter evicts exactly
\* the entry of the identity that called least recently, leaves the other
\* entries as they were and admits the caller with count 1.
C18_CapacityAndEviction ==
  /\ [](Len(rateLimiter) <= MaxTracked /\ Cardinality(Tracked(rateLimiter)) = Len(rateLimiter))
  /\ [][\A ip \in Identities :
          (Called(ip) /\ ip \notin Tracked(rateLimiter) /\ Len(rateLimiter) = MaxTracked)
            => LET victim == LeastRecent(rateLimiter) IN
               /\ Tracked(rateLimiter') = (Tracked(rateLimiter) \ {victim}) \cup {ip}
               /\ \A k \in Tracked(rateLimiter) \ {victim} :
                    EntryOf(rateLimiter', k) = EntryOf(rateLimiter, k)
               /\ EntryOf(rateLimiter', ip).value = 1
               /\ Last(streak'[ip]).allowed]_vars

C18_Witness ==
  /\ Len(rateLimiter) = MaxTracked
  /\ Last(rateLimiter).value = 1
  /\ \E k \in Identities \ Tracked(rateLimiter) : \E j \in 1..Len(used) : used[j] = k

\* C19: an allowed call restarts the window of its identity at the time of
\* the call; a rejected call leaves the start of the window where it was,
\* and an identity whose last call was rejected is rejected again while
\* the window of its last allowed call is open and allowed once it closed.
C19_WindowRestartsOnAllowedOnly ==
  [][\A ip \in Identities :
       Called(ip) =>
         /\ IF Last(streak'[ip]).allowed
            THEN EntryOf(rateLimiter', ip).start = now
            ELSE /\ ip \in Tracked(rateLimiter)
                 /\ EntryOf(rateLimiter', ip).start = EntryOf(rateLimiter, ip).start
         /\ (ip \in Tracked(rateLimiter) /\ streak[ip] # <<>> /\ ~Last(streak[ip]).allowed)
              => (Last(streak'[ip]).allowed <=> now - EntryOf(rateLimiter, ip).start > TTL)]_vars

C19_Witness ==
  \E ip \in Tracked(rateLimiter) :
    /\ Len(streak[ip]) = MaxStreak /\ ~Last(streak[ip]).allowed
    /\ EntryOf(rateLimiter, ip).start > 0
    /\ now - EntryOf(rateLimiter, ip).start = TTL

InFlight == {"fetch", "text", "json", "insert"}

\* C15: with several requests of one identity in flight, getRateLimit
\* decides each call on the count as the calls before it left it and counts
\* each allowed call once: the count of an entry is the number of allowed
\* calls of the identity's run, at most five, and no step of an invocation
\* past its first await touches the limiter.
C15_LimiterAtomic ==
  /\ [](\A ip \in Tracked(rateLimiter) :
          LET allowed == Cardinality({j \in 1..Len(streak[ip]) : streak[ip][j].allowed}) IN
          allowed <= REQUESTS_PER_HOUR /\ EntryOf(rateLimiter, ip).value = allowed)
  /\ [][\A ip \in Identities :
          Called(ip) =>
            LET before == IF ip \in Tracked(rateLimiter)
                             /\ now - EntryOf(rateLimiter, ip).start <= TTL
                          THEN EntryOf(rateLimiter, ip).value ELSE 0
            IN /\ Last(streak'[ip]).allowed <=> before < REQUESTS_PER_HOUR
               /\ EntryOf(rateLimiter', ip).value =
                    IF before < REQUESTS_PER_HOUR THEN before + 1 ELSE before]_vars
  /\ [][\A r \in Slots :
          (pc[r] \in InFlight /\ pc'[r] # pc[r]) => UNCHANGED <<rateLimiter, streak>>]_vars

C15_Witness ==
  \E ip \in Tracked(rateLimiter) :
    /\ \A r \in Slots : pc[r] \in InFlight /\ ClientIp(req[r][1]) = ip
    /\ Cardinality(Slots) >= 2
    /\ EntryOf(rateLimiter, ip).value = Cardinality(Slots)
    /\ Len(streak[ip]) = Cardinality(Slots)

\* C20: for each of the ramps 2, 2.5 and 3 the base of scoreFromHits, before
\* the jitter, does not decrease when the hits grow by one, from no hits
\* (base 60) on, and is at most 100.
C20_BaseMonotoneAndCapped ==
  probe.out # <<>> =>
    LET o == probe.out[1] IN
    /\ IsInt(o.base) /\ IsInt(o.baseOfNext)
    /\ o.base.n <= o.baseOfNext.n
    /\ o.base.n <= 100 /\ o.baseOfNext.n <= 100

C20_Witness ==
  /\ probe.out # <<>>
  /\ probe.hits = 0
  /\ probe.out[1].base = Num(60)
  /\ probe.out[1].baseOfNext.n > 60

\* C21: with no hits both variants of scoreFromHits return a score of at
\* least 1 in the variant's floor band, 53..67 for src/pages/api/score.ts
\* and 1..19 for src/pages/leaderboard.tsx, for every ramp and draw.
C21_ZeroHitFloorNonZero ==
  (probe.out # <<>> /\ probe.hits = 0) =>
    /\ InRange(probe.out[1].score, 53, 67)
    /\ InRange(probe.out[1].embedded, 1, 19)

\* C22: the jitter of a call lies in -7..7, and over the values of
\* Math.random() it takes every value of -7..7, the extremes included.
C22_JitterSymmetric ==
  probe.out # <<>> =>
    /\ probe.out[1].jitter \in (0 - 7)..7
    /\ JitterOutcomes = (0 - 7)..7

\* C23: pivot_to_ai_probability is in 55..74 when ai_hype_beast >= 60,
\* whatever the other two metrics; else in 82..96 when buzzword_density >=
\* 50, whatever market_viability; else in 70..89 when market_viability >=
\* 55; else in 65..89.
C23_PivotPriority ==
  (probe.fn = "pivot" /\ probe.out # <<>>) =>
    LET p == probe.out[1]
        t1 == probe.ai >= 60
        t2 == probe.buzz >= 50
        t3 == probe.mv >= 55
    IN /\ t1 => InRange(p, 55, 74)
       /\ (~t1 /\ t2) => InRange(p, 82, 96)
       /\ (~t1 /\ ~t2 /\ t3) => InRange(p, 70, 89)
       /\ (~t1 /\ ~t2 /\ ~t3) => InRange(p, 65, 89)

C23_Witness ==
  /\ probe.fn = "pivot" /\ probe.out # <<>>
  /\ probe.ai >= 60 /\ probe.buzz >= 50 /\ probe.mv >= 55
  /\ probe.out[1] = Num(74)

Leq(x, y) == ~x.nan /\ ~y.nan /\ x.n * y.d <= y.n * x.d

\* C25: the market viability before its jitter does not decrease when the
\* word count grows by one, does not increase when ai_hype_beast grows by
\* one, and its length bonus is at most 30 and stays 30 once it is 30.
C25_MarketBaseMonotone ==
  (probe.fn = "marketBase" /\ probe.out # <<>>) =>
    LET o == probe.out[1] IN
    /\ Leq(o.base, o.moreWords)
    /\ Leq(o.moreHype, o.base)
    /\ Leq(o.bonus, Num(30)) /\ Leq(o.bonusOfMore, Num(30))
    /\ Leq(Num(30), o.bonus) => (Leq(Num(30), o.bonusOfMore) /\ Leq(o.moreWords, o.base))

C25_Witness ==
  /\ probe.fn = "marketBase" /\ probe.out # <<>>
  /\ Leq(Num(30), probe.out[1].bonus)
  /\ Leq(probe.out[1].moreWords, probe.out[1].base)
  /\ ~Leq(probe.out[1].base, probe.out[1].moreHype)

\* C27: the handler's ai_hype_beast and buzzword_density are at least 53,
\* its pivot decision is taken by the first or the second branch, and
\* pivot_to_ai_probability is in 55..74 or in 82..96.
C27_PivotFirstTwoBranches ==
  (probe.fn = "heuristics" /\ probe.out # <<>>) =>
    LET h == probe.out[1].metrics IN
    /\ InRange(h.ai_hype_beast, 53, 100)
    /\ InRange(h.buzzword_density, 53, 100)
    /\ probe.out[1].branch \in {1, 2}
    /\ InRange(h.pivot_to_ai_probability, 55, 74) \/ InRange(h.pivot_to_ai_probability, 82, 96)

C27_Witness ==
  /\ probe.fn = "heuristics" /\ probe.out # <<>>
  /\ probe.ai_hits = 0 /\ probe.buzz_hits = 0
  /\ probe.out[1].metrics.ai_hype_beast = Num(53)
  /\ probe.out[1].metrics.buzzword_density = Num(53)
  /\ probe.out[1].branch = 2

\* C24: a request submits at most one row; the row names the idea_id and
\* the user_id of the request, and its seven metrics, composite_score,
\* founder_rank and goblin_verdict are those of the request's 200 response;
\* a row that scores accepted is the submitted one and is answered 200.
C24_RowEqualsResponse ==
  \A r \in Slots :
    /\ Len(inserts[r]) <= 1
    /\ \A j \in 1..Len(inserts[r]) :
         /\ inserts[r][j].idea_id = req[r][1].idea_id /\ inserts[r][j].idea_id # ""
         /\ inserts[r][j].user_id = req[r][1].user_id /\ inserts[r][j].user_id # ""
         /\ \A i \in Successes(r) :
              LET set == ScoreSetOf(r, i)
                  row == inserts[r][j].scores
              IN /\ Metrics(row) = Metrics(set)
                 /\ row.composite_score = set.composite_score
                 /\ row.founder_rank = set.founder_rank
                 /\ row.goblin_verdict = set.goblin_verdict
    /\ (pc[r] = "done" /\ stored[r] # <<>>)
         => (stored[r] = inserts[r] /\ Len(sent[r]) = 1 /\ sent[r][1].status = 200)

C24_Witness ==
  \E r \in Slots :
    /\ pc[r] = "done" /\ stored[r] # <<>>
    /\ Len(sent[r]) = 1 /\ sent[r][1].status = 200
    /\ stored[r][1].scores.composite_score = sent[r][1].result[1].composite_score
    /\ IsInt(stored[r][1].scores.composite_score)

\* C26: when every allowed request fails in the augmentation step, no
\* request is answered 200, the steps that end a failing request leave the
\* limiter as it is, and the count of an identity stays the number of its
\* allowed calls: the sixth request of a window is answered 429.
C26_NoRefund ==
  /\ [](\A r \in Slots : Successes(r) = {})
  /\ [](\A ip \in Tracked(rateLimiter) :
          EntryOf(rateLimiter, ip).value
            = Cardinality({j \in 1..Len(streak[ip]) : streak[ip][j].allowed}))
  /\ [][\A r \in Slots :
          (pc[r] \in InFlight /\ pc'[r] = "done" /\ sent'[r][1].status = 500)
            => rateLimiter' = rateLimiter]_vars

C26_Witness ==
  \E r \in Slots :
    /\ pc[r] = "done" /\ Len(sent[r]) = 1 /\ sent[r][1].status = 429
    /\ Len(streak[ClientIp(req[r][1])]) = REQUESTS_PER_HOUR + 1
    /\ EntryOf(rateLimiter, ClientIp(req[r][1])).value = REQUESTS_PER_HOUR

\* C29: a getRateLimit call for an identity leaves the entry of every
\* other identity as it is, count and start, or removes it, and removes it
\* only when the caller has no entry and the limiter is full; it gives no
\* other identity an entry.
C29_IdentitiesIsolated ==
  [][\A a \in Identities :
       Called(a) =>
         \A b \in Identities \ {a} :
           IF b \in Tracked(rateLimiter)
           THEN \/ /\ b \in Tracked(rateLimiter')
                   /\ EntryOf(rateLimiter', b) = EntryOf(rateLimiter, b)
                   /\ streak'[b] = streak[b]
                \/ /\ b \notin Tracked(rateLimiter')
                   /\ a \notin Tracked(rateLimiter)
                   /\ Len(rateLimiter) = MaxTracked
           ELSE b \notin Tracked(rateLimiter')]_vars

C29_Witness ==
  /\ Len(rateLimiter) = MaxTracked
  /\ rateLimiter[1].value = REQUESTS_PER_HOUR
  /\ ~Last(streak[rateLimiter[1].key]).allowed
  /\ Last(rateLimiter).value = REQUESTS_PER_HOUR
  /\ now - rateLimiter[1].start > TTL

Statuses == {405, 429, 400, 500, 200}

\* C28: an invocation sends no response while it is in flight and exactly
\* one, with one of the five statuses, when it has ended, and an invocation
\* in flight whose awaited calls settle ends with its response sent.
C28_ExactlyOneResponse ==
  /\ [](\A r \in Slots :
          /\ Len(sent[r]) <= 1
          /\ pc[r] \in InFlight => sent[r] = <<>>
          /\ pc[r] = "done" => (Len(sent[r]) = 1 /\ sent[r][1].status \in Statuses))
  /\ (pc[1] \in InFlight) ~> (pc[1] = "done" /\ Len(sent[1]) = 1)

C28_Witness ==
  \E r \in Slots :
    /\ pc[r] = "done" /\ Len(sent[r]) = 1 /\ sent[r][1].status = 200
    /\ inserts[r] # <<>> /\ stored[r] = <<>>

\* C30: every scoring request the page has sent carries the text, the id
\* and the user id of a row of ideas, a user id that is not empty, and, for
\* the submission under way, the id of the row just inserted and the user id
\* the page holds; a request answered with an error has left no row in
\* scores. A scoring request is sent only in the step in which the insert
\* into ideas returns its row, a failed insert sends none and starts no
\* handler, and no row of ideas is ever removed or changed.
C30_ScoreAfterIdeaInsert ==
  /\ [](/\ Len(page.posted) <= Len(ideas)
        /\ \A k \in 1..Len(page.posted) :
             LET q == page.posted[k]
             IN /\ q.method = "POST" /\ q.user_id # "" /\ q.idea_id # ""
                /\ \E i \in 1..Len(ideas) :
                     /\ ideas[i].id = q.idea_id
                     /\ ideas[i].user_id = q.user_id
                     /\ TextIdea(ideas[i].idea_text) = q.idea
                /\ (k = Len(page.posted) /\ page.at = "scoring") =>
                     (q.user_id = page.userId /\ q.idea_id = Last(ideas).id)
                /\ (pc[k] # "idle") => req[k] = <<q>>
                /\ (pc[k] = "done" /\ sent[k][1].status # 200) => stored[k] = <<>>)
  /\ [][/\ (page'.posted # page.posted) =>
             /\ page.at = "inserting"
             /\ Len(ideas') = Len(ideas) + 1
             /\ Len(page'.posted) = Len(page.posted) + 1
             /\ Last(page'.posted).idea_id = Last(ideas').id
        /\ (page'.alerts = Append(page.alerts, "Insert failed")) =>
             (page'.posted = page.posted /\ pc' = pc /\ req' = req)
        /\ Len(ideas') >= Len(ideas)
        /\ \A i \in 1..Len(ideas) : ideas'[i] = ideas[i]]_vars

\* A scoring request of the page was answered 500 after the handler had
\* submitted its row to scores: the ideas row is there, the scores row is
\* not, and the page has alerted the error.
C30_Witness ==
  /\ Len(page.posted) = 1 /\ pc[1] = "done"
  /\ sent[1][1].status = 500 /\ inserts[1] # <<>> /\ stored[1] = <<>>
  /\ Len(ideas) = 1 /\ ideas[1].id = page.posted[1].idea_id
  /\ page.at = "idle" /\ page.alerts = <<"Error computing scores">>

====
